---- MODULE Spec2Model ----
(***************************************************************************)
(* Model of src/manifest/mod.rs of pore: the manifest data model, its      *)
(* construction from a decoded schema, the per-project resolution queries  *)
(* (find_remote, find_revision, find_dest_branch, resolve_project_remote)  *)
(* and ExtendProject::extend.                                              *)
(*                                                                         *)
(* Conventions.  Option<T> is a sequence of length at most one: None is    *)
(* <<>> and Some(v) is <<v>>.  Strings the code only compares as a whole   *)
(* (remote names, revisions, branches, groups) are TLA+ strings.  Strings  *)
(* the code looks into (URLs, project names and paths) are sequences of    *)
(* one-character strings, so "a/" is <<"a", "/">>.  Result<T, Error> is a  *)
(* record with a field ok; anyhow errors are records holding the message   *)
(* template, its argument and, for a context wrapper, the cause.           *)
(***************************************************************************)
EXTENDS Integers, Sequences, FiniteSets, TLC

VARIABLES schema, manifest, project, extension, config, tree_config, applied, op, result

vars == <<schema, manifest, project, extension, config, tree_config, applied, op, result>>

----------------------------------------------------------------------------
(* Option and Result *)

None == <<>>

Some(v) == <<v>>

Opt(S) == {None} \cup {Some(v) : v \in S}

Ok(v) == [ok |-> TRUE, val |-> v]

Err(e) == [ok |-> FALSE, err |-> e]

format_err(msg, arg) == [msg |-> msg, arg |-> arg]

with_context(e, msg, arg) == [msg |-> msg, arg |-> arg, cause |-> e]

EmptyMap == [k \in {} |-> None]

\* HashMap::get / BTreeMap::get
MapGet(m, k) == IF k \in DOMAIN m THEN Some(m[k]) ELSE None

\* collect() of an iterator of (key, value) pairs into a map: the pairs are
\* inserted in order, a later pair replacing an earlier one with an equal key.
RECURSIVE Collect(_)
Collect(pairs) ==
  IF pairs = <<>> THEN EmptyMap
  ELSE LET n == Len(pairs)
           m == Collect(SubSeq(pairs, 1, n - 1))
           k == pairs[n][1]
       IN [x \in DOMAIN m \cup {k} |-> IF x = k THEN pairs[n][2] ELSE m[x]]

----------------------------------------------------------------------------
(* Entities *)

Remote(name, fetch, revision) ==
  [name |-> name, alias |-> None, fetch |-> fetch, push_url |-> None,
   review |-> None, revision |-> revision]

Default(remote, revision, dest_branch) ==
  [remote |-> remote, revision |-> revision, dest_branch |-> dest_branch,
   upstream |-> None, sync_j |-> None, sync_c |-> None]

Manifest(remotes, projects, default) ==
  [remotes |-> remotes, projects |-> projects, default |-> default,
   manifest_server |-> None, superproject |-> None, contactinfo |-> None,
   repo_hooks |-> None]

----------------------------------------------------------------------------
(* Project queries *)

\* Project::path
path(self) == IF self.path # None THEN self.path[1] ELSE self.name

\* A find_remote that prefers the manifest default over the project.
find_remote_default_first(self, m) ==
  IF m.default # None /\ m.default[1].remote # None THEN Ok(m.default[1].remote[1])
  ELSE IF self.remote # None THEN Ok(self.remote[1])
  ELSE Err(format_err("project {} has no remote", self.name))

\* Project::find_remote
find_remote(self, m) ==
  LET fromDefault == IF m.default # None THEN m.default[1].remote ELSE None
      remote_name == IF self.remote # None THEN self.remote ELSE fromDefault
  IN IF remote_name = None
     THEN Err(format_err("project {} has no remote", self.name))
     ELSE Ok(remote_name[1])

\* A find_revision that asks the remote before the manifest default.
find_revision_remote_first(self, m) ==
  IF self.revision # None THEN Ok(self.revision[1])
  ELSE LET r == find_remote(self, m)
           remote == IF r.ok THEN MapGet(m.remotes, r.val) ELSE None
       IN IF remote # None /\ remote[1].revision # None THEN Ok(remote[1].revision[1])
          ELSE IF m.default # None /\ m.default[1].revision # None
               THEN Ok(m.default[1].revision[1])
          ELSE IF ~r.ok THEN r
          ELSE Err(format_err("project {} has no revision", self.name))

\* Project::find_revision
find_revision(self, m) ==
  IF self.revision # None THEN Ok(self.revision[1])
  ELSE IF m.default # None /\ m.default[1].revision # None
       THEN Ok(m.default[1].revision[1])
  ELSE LET r == find_remote(self, m)
       IN IF ~r.ok THEN r
          ELSE LET remote == MapGet(m.remotes, r.val)
                   revision == IF remote # None THEN remote[1].revision ELSE None
               IN IF revision # None THEN Ok(revision[1])
                  ELSE Err(format_err("project {} has no revision", self.name))

\* A find_dest_branch that falls back to the default's dest_branch first.
find_dest_branch_default(self, m) ==
  IF self.dest_branch # None THEN Ok(self.dest_branch[1])
  ELSE IF m.default # None /\ m.default[1].dest_branch # None
       THEN Ok(m.default[1].dest_branch[1])
  ELSE LET r == find_revision(self, m)
       IN IF r.ok THEN r
          ELSE Err(with_context(r.err, "project {} has no dest_branch or revision", self.name))

\* Project::find_dest_branch
find_dest_branch(self, m) ==
  IF self.dest_branch # None THEN Ok(self.dest_branch[1])
  ELSE LET r == find_revision(self, m)
       IN IF r.ok THEN r
          ELSE Err(with_context(r.err, "project {} has no dest_branch or revision", self.name))

----------------------------------------------------------------------------
(* Project extension *)

ExtendProject(name, path_, groups, revision, remote) ==
  [name |-> name, path |-> path_, groups |-> groups, revision |-> revision,
   remote |-> remote]

unwrap_or_default(o) == IF o # None THEN o[1] ELSE <<>>

\* The extension's changes, applied to a clone of the project.
Overrides(self, p) ==
  LET g == IF self.groups # None
           THEN Some(unwrap_or_default(p.groups) \o self.groups[1])
           ELSE p.groups
      rev == IF self.revision # None THEN Some(self.revision[1]) ELSE p.revision
      rem == IF self.remote # None THEN Some(self.remote[1]) ELSE p.remote
  IN [p EXCEPT !.groups = g, !.revision = rev, !.remote = rem]

\* An extend that skips the groups the project already has.
extend_dedup(self, p) ==
  IF self.path # None /\ self.path[1] # path(p) THEN p
  ELSE LET old == unwrap_or_default(p.groups)
           fresh == IF self.groups # None
                    THEN SelectSeq(self.groups[1],
                                   LAMBDA g : \A i \in DOMAIN old : old[i] # g)
                    ELSE <<>>
       IN Overrides([self EXCEPT !.groups = IF self.groups # None THEN Some(fresh) ELSE None], p)

\* An extend whose path filter accepts a path that only starts like the project's.
extend_prefix(self, p) ==
  LET want == IF self.path # None THEN self.path[1] ELSE <<>>
      have == path(p)
      prefix == Len(have) <= Len(want) /\ SubSeq(want, 1, Len(have)) = have
  IN IF self.path # None /\ ~prefix THEN p ELSE Overrides(self, p)

\* An extend that replaces the groups instead of appending to them.
extend_replace(self, p) ==
  IF self.path # None /\ self.path[1] # path(p) THEN p
  ELSE [Overrides(self, p) EXCEPT !.groups = IF self.groups # None THEN self.groups
                                              ELSE p.groups]

\* ExtendProject::extend
extend(self, p) ==
  IF self.path # None /\ self.path[1] # path(p) THEN p
  ELSE Overrides(self, p)

----------------------------------------------------------------------------
(* Remote resolution against the configured remotes *)

DotDot == <<".", ".">>

\* A canonicalize_url that strips a single trailing slash.
canonicalize_url_once(url) ==
  IF url # <<>> /\ url[Len(url)] = "/" THEN SubSeq(url, 1, Len(url) - 1) ELSE url

\* canonicalize_url: str::trim_end_matches('/')
RECURSIVE canonicalize_url(_)
canonicalize_url(url) ==
  IF url # <<>> /\ url[Len(url)] = "/"
  THEN canonicalize_url(SubSeq(url, 1, Len(url) - 1))
  ELSE url

\* One turn of the loop over config.remotes: does this configured remote match?
RemoteMatches(remote, url) ==
  \/ url = canonicalize_url(remote.url)
  \/ LET others == unwrap_or_default(remote.other_urls)
     IN \E i \in DOMAIN others : url = canonicalize_url(others[i])

\* The loop over config.remotes: the name of the first matching remote.
RECURSIVE FirstMatch(_, _)
FirstMatch(remotes, url) ==
  IF remotes = <<>> THEN None
  ELSE IF RemoteMatches(Head(remotes), url) THEN Some(Head(remotes).name)
  ELSE FirstMatch(Tail(remotes), url)

\* A resolve_project_remote that scans the configured remotes before it
\* looks for the ".." sentinel.
resolve_scan_first(self, cfg, tree, p) ==
  LET r == find_remote(p, self)
  IN IF ~r.ok THEN r
     ELSE LET project_remote == MapGet(self.remotes, r.val)
          IN IF project_remote = None
             THEN Err(format_err("remote {} missing in manifest", r.val))
             ELSE LET url == canonicalize_url(project_remote[1].fetch)
                      found == FirstMatch(cfg.remotes, url)
                  IN IF found # None THEN Ok(<<found[1], project_remote[1]>>)
                     ELSE IF project_remote[1].fetch = DotDot
                          THEN Ok(<<tree.remote, project_remote[1]>>)
                     ELSE Err(format_err("couldn't find remote in configuration matching '{}'", url))

\* A resolve_project_remote that answers with the tree's remote when the
\* manifest does not know the remote's name.
resolve_unknown_as_tree(self, cfg, tree, p) ==
  LET r == find_remote(p, self)
  IN IF ~r.ok THEN r
     ELSE LET project_remote == MapGet(self.remotes, r.val)
          IN IF project_remote = None
             THEN Ok(<<tree.remote, Remote(r.val, DotDot, None)>>)
             ELSE IF project_remote[1].fetch = DotDot
                  THEN Ok(<<tree.remote, project_remote[1]>>)
             ELSE LET url == canonicalize_url(project_remote[1].fetch)
                      found == FirstMatch(cfg.remotes, url)
                  IN IF found # None THEN Ok(<<found[1], project_remote[1]>>)
                     ELSE Err(format_err("couldn't find remote in configuration matching '{}'", url))

\* Manifest::resolve_project_remote
resolve_project_remote(self, cfg, tree, p) ==
  LET r == find_remote(p, self)
  IN IF ~r.ok THEN r
     ELSE LET project_remote == MapGet(self.remotes, r.val)
          IN IF project_remote = None
             THEN Err(format_err("remote {} missing in manifest", r.val))
             ELSE IF project_remote[1].fetch = DotDot
                  THEN Ok(<<tree.remote, project_remote[1]>>)
             ELSE LET url == canonicalize_url(project_remote[1].fetch)
                      found == FirstMatch(cfg.remotes, url)
                  IN IF found # None THEN Ok(<<found[1], project_remote[1]>>)
                     ELSE Err(format_err("couldn't find remote in configuration matching '{}'", url))

----------------------------------------------------------------------------
(* Model construction *)

\* The pieces of a string between its '/' separators.
RECURSIVE Segments(_)
Segments(s) ==
  IF s = <<>> THEN << <<>> >>
  ELSE LET rest == Segments(Tail(s))
       IN IF Head(s) = "/" THEN << <<>> >> \o rest
          ELSE << <<Head(s)>> \o Head(rest) >> \o Tail(rest)

\* PathBuf::from(s) as the BTreeMap sees it: paths are ordered and compared
\* by their components, so a leading '/' counts once, empty pieces (repeated
\* or trailing separators) are dropped and so is every "." but a leading one.
PathBuf(s) ==
  LET segs == Segments(s)
      keep(i) == segs[i] # <<>> /\ (segs[i] # <<".">> \/ i = 1)
      idx == {i \in DOMAIN segs : keep(i)}
      nth(k) == CHOOSE i \in idx : Cardinality({j \in idx : j <= i}) = k
  IN [has_root |-> s # <<>> /\ Head(s) = "/",
      components |-> [k \in 1..Cardinality(idx) |-> segs[nth(k)]]]

\* From<CopyFileSchema> for FileOperation
CopyFile(f) == [kind |-> "CopyFile", src |-> f.src, dst |-> f.dest]

\* From<LinkFileSchema> for FileOperation
LinkFile(f) == [kind |-> "LinkFile", src |-> f.src, dst |-> f.dest]

\* From<ProjectSchema> for Project
ProjectFrom(s) ==
  LET copies == unwrap_or_default(s.copy_files)
      links == unwrap_or_default(s.link_files)
      notes == unwrap_or_default(s.annotations)
  IN [name |-> s.name, path |-> s.path, remote |-> s.remote, revision |-> s.revision,
      dest_branch |-> s.dest_branch, groups |-> s.groups, sync_c |-> s.sync_c,
      clone_depth |-> s.clone_depth,
      file_operations |-> [i \in DOMAIN copies |-> CopyFile(copies[i])]
                          \o [i \in DOMAIN links |-> LinkFile(links[i])],
      annotations |-> Collect([i \in DOMAIN notes |-> <<notes[i].name, notes[i].value>>])]

\* From<RemoteSchema> for Remote
RemoteFrom(s) ==
  [name |-> s.name, alias |-> s.alias, fetch |-> s.fetch, push_url |-> s.push_url,
   review |-> s.review, revision |-> s.revision]

\* From<DefaultSchema> for Default
DefaultFrom(s) ==
  [remote |-> s.remote, revision |-> s.revision, dest_branch |-> s.dest_branch,
   upstream |-> s.upstream, sync_j |-> s.sync_j, sync_c |-> s.sync_c]

\* The string a project record is keyed by: its path, or its name without one.
KeyString(s) == IF s.path # None THEN s.path[1] ELSE s.name

Reverse(q) == [i \in DOMAIN q |-> q[Len(q) + 1 - i]]

\* A construct_from_schema in which the first record of a key wins.
construct_first_wins(s) ==
  Ok(Manifest(
       Collect([i \in DOMAIN s.remote |-> <<s.remote[i].name, RemoteFrom(s.remote[i])>>]),
       Collect(Reverse([i \in DOMAIN s.project |->
                  <<PathBuf(KeyString(s.project[i])), ProjectFrom(s.project[i])>>])),
       IF s.default # None THEN Some(DefaultFrom(s.default[1])) ELSE None))

\* Manifest::construct_from_schema
construct_from_schema(s) ==
  Ok(Manifest(
       Collect([i \in DOMAIN s.remote |-> <<s.remote[i].name, RemoteFrom(s.remote[i])>>]),
       Collect([i \in DOMAIN s.project |->
                  <<PathBuf(KeyString(s.project[i])), ProjectFrom(s.project[i])>>]),
       IF s.default # None THEN Some(DefaultFrom(s.default[1])) ELSE None))

----------------------------------------------------------------------------
(* Input domains *)

MaxGroups == 2

MaxExtendCalls == 2

MaxConfigRemotes == 2

MaxProjects == 2

\* Lists of at most n elements of S.
ListsUpTo(S, n) == UNION {[1..k -> S] : k \in 0..n}

ProjectNames == {<<"a">>, <<"b">>}

ProjectPaths == {<<"a">>, <<"a", "/">>, <<"b">>}

RemoteNames == {"r1", "r2"}

Revisions == {"v1", "v2"}

Groups == {"g1", "g2"}

Urls == {DotDot, <<"a">>, <<"a", "/">>, <<"a", "/", "/">>, <<"A">>}

Project(name, path_, remote, revision, dest_branch, groups) ==
  [name |-> name, path |-> path_, remote |-> remote, revision |-> revision,
   dest_branch |-> dest_branch, groups |-> groups, sync_c |-> None,
   clone_depth |-> None,
   file_operations |-> <<CopyFile([src |-> "s1", dest |-> "d1"]),
                         LinkFile([src |-> "s2", dest |-> "d2"])>>,
   annotations |-> EmptyMap]

\* Values of the variables a specification does not use.
NoSchema == [project |-> <<>>, remote |-> <<>>, default |-> None, include |-> None]

NoProject == Project(<<>>, None, None, None, None, None)

NoExtension == ExtendProject(<<>>, None, None, None, None)

NoConfig == [remotes |-> <<>>]

NoTreeConfig == [remote |-> ""]

----------------------------------------------------------------------------
(* Revision, remote and destination-branch queries *)

RevProjects ==
  {Project(n, None, rem, rev, db, None) :
     n \in ProjectNames, rem \in Opt(RemoteNames), rev \in Opt(Revisions),
     db \in Opt({"b1"})}

RevDefaults ==
  Opt({Default(rem, rev, db) :
         rem \in Opt(RemoteNames), rev \in Opt(Revisions), db \in Opt({"b2"})})

RevRemotes ==
  UNION {{[n \in D |-> Remote(n, <<"a">>, f[n])] : f \in [D -> Opt(Revisions)]} :
           D \in SUBSET RemoteNames}

InitRev ==
  /\ project \in RevProjects
  /\ manifest \in {Manifest(r, EmptyMap, d) : r \in RevRemotes, d \in RevDefaults}
  /\ schema = NoSchema
  /\ extension = NoExtension
  /\ config = NoConfig
  /\ tree_config = NoTreeConfig
  /\ applied = <<>>
  /\ op = "new"
  /\ result = None

FindRemote ==
  /\ op' = "find_remote"
  /\ result' = find_remote(project, manifest)
  /\ UNCHANGED <<schema, manifest, project, extension, config, tree_config, applied>>

FindRevision ==
  /\ op' = "find_revision"
  /\ result' = find_revision(project, manifest)
  /\ UNCHANGED <<schema, manifest, project, extension, config, tree_config, applied>>

FindDestBranch ==
  /\ op' = "find_dest_branch"
  /\ result' = find_dest_branch(project, manifest)
  /\ UNCHANGED <<schema, manifest, project, extension, config, tree_config, applied>>

NextRev == FindRemote \/ FindRevision \/ FindDestBranch

SpecRev == InitRev /\ [][NextRev]_vars

IsOk(r, v) == r.ok /\ r.val = v

IsErr(r, e) == ~r.ok /\ r.err = e

\* C1: find_revision returns the first value present among project.revision,
\* manifest.default.revision and the revision of the remote that find_remote
\* names; it fails when none is present, and when project and default have no
\* revision and find_remote fails.
C1_FindRevisionPriority ==
  op = "find_revision" =>
    LET d == manifest.default
        fr == find_remote(project, manifest)
        remoteRev == IF fr.ok /\ fr.val \in DOMAIN manifest.remotes
                     THEN manifest.remotes[fr.val].revision ELSE None
    IN /\ project.revision # None => IsOk(result, project.revision[1])
       /\ project.revision = None /\ d # None /\ d[1].revision # None
            => IsOk(result, d[1].revision[1])
       /\ project.revision = None /\ (d = None \/ d[1].revision = None)
            => /\ remoteRev # None => IsOk(result, remoteRev[1])
               /\ remoteRev = None => ~result.ok
               /\ ~fr.ok => ~result.ok

\* find_revision answered with the remote's revision although the default
\* exists (without a revision) and names that remote.
C1_Witness ==
  /\ op = "find_revision"
  /\ project.revision = None /\ project.remote = None
  /\ manifest.default # None /\ manifest.default[1].revision = None
  /\ result.ok
  /\ result.val = manifest.remotes[manifest.default[1].remote[1]].revision[1]

\* C2: find_remote returns project.remote if set, else manifest.default.remote
\* if a default exists and names one, else fails with "has no remote" naming
\* the project; the manifest's remote map plays no part.
C2_FindRemote ==
  op = "find_remote" =>
    LET d == manifest.default
    IN /\ project.remote # None => IsOk(result, project.remote[1])
       /\ project.remote = None /\ d # None /\ d[1].remote # None
            => IsOk(result, d[1].remote[1])
       /\ project.remote = None /\ (d = None \/ d[1].remote = None)
            => IsErr(result, format_err("project {} has no remote", project.name))

\* find_remote returned the default's remote, which the manifest does not define.
C2_Witness ==
  /\ op = "find_remote"
  /\ project.remote = None
  /\ result.ok
  /\ result.val = manifest.default[1].remote[1]
  /\ result.val \notin DOMAIN manifest.remotes

\* C3: find_dest_branch returns project.dest_branch when present; otherwise it
\* succeeds exactly when find_revision does, with the same value;
\* manifest.default.dest_branch plays no part.
C3_FindDestBranch ==
  op = "find_dest_branch" =>
    LET rev == find_revision(project, manifest)
    IN /\ project.dest_branch # None => IsOk(result, project.dest_branch[1])
       /\ project.dest_branch = None
            => /\ result.ok = rev.ok
               /\ rev.ok => result.val = rev.val
               /\ ~rev.ok => result.err.cause = rev.err

\* find_dest_branch fell back to the revision although the default carries a
\* dest_branch.
C3_Witness ==
  /\ op = "find_dest_branch"
  /\ project.dest_branch = None
  /\ manifest.default # None /\ manifest.default[1].dest_branch # None
  /\ result.ok
  /\ result.val \in Revisions

----------------------------------------------------------------------------
(* Resolution of a project's remote against the configured remotes *)

ConfigNames == <<"c1", "c2", "c3", "c4">>

\* A configured remote of crate::Config: name, url and optional other_urls.
RemoteConfig(name, url, other_urls) ==
  [name |-> name, url |-> url, other_urls |-> other_urls]

ConfigUrls == {DotDot, <<"a">>, <<"A">>, <<"a", "/">>}

ConfigOtherUrls == {None, Some(<<<<"a", "/", "/">>>>)}

\* The configured remote lists: the i-th remote carries the i-th name.
Configs ==
  {[remotes |-> [i \in DOMAIN us |-> RemoteConfig(ConfigNames[i], us[i][1], us[i][2])]] :
     us \in ListsUpTo(ConfigUrls \X ConfigOtherUrls, MaxConfigRemotes)}

ResRemotes ==
  {EmptyMap} \cup {[n \in {r} |-> Remote(n, u, None)] : r \in RemoteNames, u \in Urls}

ResDefaults == {None} \cup {Some(Default(Some(r), None, None)) : r \in RemoteNames}

InitRes ==
  /\ project \in {Project(<<"a">>, None, rem, None, None, None) : rem \in Opt(RemoteNames)}
  /\ manifest \in {Manifest(r, EmptyMap, d) : r \in ResRemotes, d \in ResDefaults}
  /\ config \in Configs
  /\ tree_config \in {[remote |-> "t1"], [remote |-> "c1"]}
  /\ schema = NoSchema
  /\ extension = NoExtension
  /\ applied = <<>>
  /\ op = "new"
  /\ result = None

ResolveProjectRemote ==
  /\ op' = "resolve_project_remote"
  /\ result' = resolve_project_remote(manifest, config, tree_config, project)
  /\ UNCHANGED <<schema, manifest, project, extension, config, tree_config, applied>>

NextRes == ResolveProjectRemote

SpecRes == InitRes /\ [][NextRes]_vars

\* The name find_remote yields for the project, as an Option.
NamedRemote ==
  LET fr == find_remote(project, manifest)
  IN IF fr.ok THEN Some(fr.val) ELSE None

\* The manifest remote the project resolves to, as an Option.
ManifestRemote ==
  IF NamedRemote # None THEN MapGet(manifest.remotes, NamedRemote[1]) ELSE None

\* c is u without its trailing '/' characters.
IsStripped(c, u) ==
  /\ Len(c) <= Len(u)
  /\ SubSeq(u, 1, Len(c)) = c
  /\ \A i \in (Len(c) + 1)..Len(u) : u[i] = "/"
  /\ c = <<>> \/ c[Len(c)] # "/"

\* u and v are equal once the trailing '/' characters of both are removed.
EqualModuloTrailingSlashes(u, v) ==
  \E n \in 0..Len(u) : IsStripped(SubSeq(u, 1, n), u) /\ IsStripped(SubSeq(u, 1, n), v)

\* The configured remotes one of whose URLs matches the fetch URL.
Matching(fetch) ==
  {i \in DOMAIN config.remotes :
     \/ EqualModuloTrailingSlashes(fetch, config.remotes[i].url)
     \/ LET others == unwrap_or_default(config.remotes[i].other_urls)
        IN \E j \in DOMAIN others : EqualModuloTrailingSlashes(fetch, others[j])}

\* C4: when the manifest remote the project resolves to has fetch "..",
\* resolve_project_remote succeeds with the tree's remote name and that
\* manifest remote, whatever the configured remotes are.
C4_DotDotIsTreeRemote ==
  op = "resolve_project_remote" /\ ManifestRemote # None /\ ManifestRemote[1].fetch = DotDot
    => IsOk(result, <<tree_config.remote, ManifestRemote[1]>>)

\* The fetch URL is ".." while a configured remote with another name has the
\* URL ".." too.
C4_Witness ==
  /\ op = "resolve_project_remote"
  /\ ManifestRemote # None /\ ManifestRemote[1].fetch = DotDot
  /\ \E i \in DOMAIN config.remotes :
       config.remotes[i].url = DotDot /\ config.remotes[i].name # tree_config.remote
  /\ result.ok

\* C5: when the manifest remote exists and its fetch is not "..",
\* resolve_project_remote succeeds exactly when a configured remote's url or
\* one of its other_urls equals the fetch URL up to trailing '/' characters,
\* it then returns the name of such a remote, and otherwise fails naming the
\* fetch URL without its trailing '/' characters.
C5_UrlMatch ==
  op = "resolve_project_remote" /\ ManifestRemote # None /\ ManifestRemote[1].fetch # DotDot
    => LET fetch == ManifestRemote[1].fetch
       IN /\ result.ok <=> Matching(fetch) # {}
          /\ result.ok => /\ \E i \in Matching(fetch) : result.val[1] = config.remotes[i].name
                          /\ result.val[2] = ManifestRemote[1]
          /\ ~result.ok =>
               /\ result.err.msg = "couldn't find remote in configuration matching '{}'"
               /\ IsStripped(result.err.arg, fetch)

\* A fetch URL with trailing slashes matched a configured URL written
\* differently, through the url or through other_urls.
C5_Witness ==
  /\ op = "resolve_project_remote"
  /\ ManifestRemote # None
  /\ ManifestRemote[1].fetch = <<"a", "/", "/">>
  /\ \A i \in DOMAIN config.remotes :
       /\ config.remotes[i].url # ManifestRemote[1].fetch
       /\ config.remotes[i].other_urls = None
  /\ result.ok

\* C10: when find_remote yields a name that is no key of the manifest's remote
\* map, resolve_project_remote fails with "remote {} missing in manifest"
\* naming it, whatever the configured remotes and the tree configuration are.
C10_UnknownRemote ==
  op = "resolve_project_remote" /\ NamedRemote # None
    /\ NamedRemote[1] \notin DOMAIN manifest.remotes
    => IsErr(result, format_err("remote {} missing in manifest", NamedRemote[1]))

\* The default names a remote the manifest lacks, while configured remotes
\* and another manifest remote are at hand.
C10_Witness ==
  /\ op = "resolve_project_remote"
  /\ project.remote = None
  /\ NamedRemote # None /\ NamedRemote[1] \notin DOMAIN manifest.remotes
  /\ manifest.remotes # EmptyMap
  /\ config.remotes # <<>>
  /\ ~result.ok

----------------------------------------------------------------------------
(* Repeated application of one extension to a project *)

GroupLists == Opt(ListsUpTo(Groups, MaxGroups))

ExtProjects ==
  {Project(n, p, rr[1], rr[2], None, g) :
     n \in ProjectNames, p \in Opt({<<"a">>, <<"a", "/">>}), g \in GroupLists,
     rr \in {<<None, None>>, <<Some("r1"), Some("v1")>>}}

Extensions ==
  {ExtendProject(n, p, g, rev, rem) :
     n \in ProjectNames, p \in Opt({<<"a">>, <<"a", "/">>}), g \in GroupLists,
     rev \in Opt({"v2"}), rem \in Opt({"r2"})}

InitExt ==
  /\ project \in ExtProjects
  /\ extension \in Extensions
  /\ schema = NoSchema
  /\ manifest = Manifest(EmptyMap, EmptyMap, None)
  /\ config = NoConfig
  /\ tree_config = NoTreeConfig
  /\ applied = <<>>
  /\ op = "new"
  /\ result = None

\* The project the k-th call of extend was given: the caller's project first,
\* the previous call's result afterwards.
Given(k) == IF k = 1 THEN project ELSE applied[k - 1]

Extend ==
  /\ Len(applied) < MaxExtendCalls
  /\ op' = "extend"
  /\ result' = extend(extension, Given(Len(applied) + 1))
  /\ applied' = Append(applied, result')
  /\ UNCHANGED <<schema, manifest, project, extension, config, tree_config>>

NextExt == Extend

SpecExt == InitExt /\ [][NextExt]_vars

\* The project's effective path: its path, or its name when it has none.
EffectivePath(p) == IF p.path = None THEN p.name ELSE p.path[1]

\* The extension's path filter lets the project through.
Applies(p) == extension.path = None \/ extension.path[1] = EffectivePath(p)

\* C6: when the extension's path is absent or equals the project's effective
\* path, whatever the extension's name, the result's groups are the original
\* groups followed by the extension's groups with duplicates kept, revision
\* and remote are the extension's exactly when it specifies them, and every
\* other field is the input project's.
C6_ExtendApplies ==
  \A k \in DOMAIN applied :
    LET p == Given(k)
        q == applied[k]
    IN Applies(p) =>
         /\ unwrap_or_default(q.groups)
              = unwrap_or_default(p.groups) \o unwrap_or_default(extension.groups)
         /\ q.revision = IF extension.revision # None THEN extension.revision ELSE p.revision
         /\ q.remote = IF extension.remote # None THEN extension.remote ELSE p.remote
         /\ \A f \in DOMAIN p \ {"groups", "revision", "remote"} : q[f] = p[f]

\* An extension with another name matched by path and appended a group the
\* project already had.
C6_Witness ==
  /\ applied # <<>>
  /\ extension.path # None /\ extension.path[1] = EffectivePath(project)
  /\ extension.name # project.name
  /\ project.groups = Some(<<"g1", "g2">>)
  /\ extension.groups = Some(<<"g2", "g1">>)
  /\ applied[1].groups = Some(<<"g1", "g2", "g2", "g1">>)

\* C7: when the extension's path is set and is not, character for character,
\* the project's effective path, extend returns a project equal to the input
\* in every field.
C7_ExtendFiltered ==
  \A k \in DOMAIN applied :
    extension.path # None /\ extension.path[1] # EffectivePath(Given(k))
      => applied[k] = Given(k)

\* The extension's path differs from the project's by a trailing '/' only,
\* and its groups, revision and remote were all left out of the result.
C7_Witness ==
  /\ applied # <<>>
  /\ extension.path = Some(<<"a", "/">>) /\ EffectivePath(project) = <<"a">>
  /\ extension.groups # None /\ extension.groups[1] # <<>>
  /\ extension.revision # None /\ extension.remote # None
  /\ applied[1] = project

\* C8 as stated: a second application changes nothing when the extension has
\* no groups, and changes the project whenever the extension has groups and
\* applies to it.
C8_AsStated ==
  \A k \in DOMAIN applied : k > 1 =>
    /\ extension.groups = None => applied[k] = applied[k - 1]
    /\ extension.groups # None /\ Applies(project) => applied[k] # applied[k - 1]

\* C8, amended: a second application changes nothing when the extension has
\* no groups or an empty list of groups, and changes the project whenever the
\* extension has at least one group and applies to it.
C8_IdempotentWithoutGroups ==
  \A k \in DOMAIN applied : k > 1 =>
    /\ unwrap_or_default(extension.groups) = <<>> => applied[k] = applied[k - 1]
    /\ unwrap_or_default(extension.groups) # <<>> /\ Applies(project)
         => /\ applied[k] # applied[k - 1]
            /\ Len(applied[k].groups[1]) > Len(applied[k - 1].groups[1])

\* An applying extension with an empty list of groups was applied twice: the
\* first application changed the project, the second did not.
C8_Witness ==
  /\ Len(applied) >= 2
  /\ Applies(project)
  /\ extension.groups = Some(<<>>)
  /\ applied[1] # project
  /\ applied[2] = applied[1]

----------------------------------------------------------------------------
(* Construction of the manifest from a decoded schema, and lookups in it *)

ProjectSchema(name, path_, revision, annotations, copy_files, link_files) ==
  [name |-> name, path |-> path_, remote |-> None, revision |-> revision,
   dest_branch |-> None, groups |-> None, sync_c |-> None, sync_s |-> None,
   upstream |-> None, clone_depth |-> None, force_path |-> None,
   annotations |-> annotations, copy_files |-> copy_files, link_files |-> link_files]

RemoteSchema(name, fetch) ==
  [name |-> name, alias |-> None, fetch |-> fetch, push_url |-> None,
   review |-> None, revision |-> None]

DefaultSchema(remote, revision) ==
  [remote |-> remote, revision |-> revision, dest_branch |-> None,
   upstream |-> None, sync_j |-> None, sync_c |-> None]

\* A project element without children, and one with annotations (a name
\* given twice), a copyfile and a linkfile.
Children ==
  {<<None, None, None>>,
   <<Some(<<[name |-> "k", value |-> "x"], [name |-> "k", value |-> "y"]>>),
     Some(<<[src |-> "s1", dest |-> "d1"]>>),
     Some(<<[src |-> "s2", dest |-> "d2"]>>)>>}

ProjectSchemas ==
  {ProjectSchema(n, p, None, c[1], c[2], c[3]) :
     n \in ProjectPaths, p \in Opt(ProjectPaths), c \in Children}

Schemas ==
  {[project |-> ps, remote |-> rd[1], default |-> rd[2], include |-> None] :
     ps \in ListsUpTo(ProjectSchemas, MaxProjects),
     rd \in {<<<<>>, None>>,
             <<<<RemoteSchema("r1", <<"a">>), RemoteSchema("r2", DotDot),
                 RemoteSchema("r1", <<"A">>)>>,
               Some(DefaultSchema(Some("r1"), Some("v1")))>>}}

InitCon ==
  /\ schema \in Schemas
  /\ manifest = Manifest(EmptyMap, EmptyMap, None)
  /\ project = NoProject
  /\ extension = NoExtension
  /\ config = NoConfig
  /\ tree_config = NoTreeConfig
  /\ applied = <<>>
  /\ op = "new"
  /\ result = None

Construct ==
  /\ op = "new"
  /\ op' = "construct_from_schema"
  /\ result' = construct_from_schema(schema)
  /\ manifest' = IF result'.ok THEN result'.val ELSE manifest
  /\ UNCHANGED <<schema, project, extension, config, tree_config, applied>>

\* manifest.projects.get(&PathBuf::from(s)) for the key string s of a record.
Get ==
  /\ op # "new"
  /\ \E i \in DOMAIN schema.project :
       LET s == KeyString(schema.project[i])
       IN result' = [key |-> s, found |-> MapGet(manifest.projects, PathBuf(s))]
  /\ op' = "get"
  /\ UNCHANGED <<schema, manifest, project, extension, config, tree_config, applied>>

NextCon == Construct \/ Get

SpecCon == InitCon /\ [][NextCon]_vars

\* The string a record is stored under: its path if given, else its name.
PathOrName(r) == IF r.path = None THEN r.name ELSE r.path[1]

\* The records of the schema whose key string is s.
RecordsKeyed(s) == {i \in DOMAIN schema.project : PathOrName(schema.project[i]) = s}

\* The records of the schema whose key is the same path as s.
RecordsAt(s) ==
  {i \in DOMAIN schema.project : PathBuf(PathOrName(schema.project[i])) = PathBuf(s)}

Max(S) == CHOOSE i \in S : \A j \in S : j <= i

Constructed == op \in {"construct_from_schema", "get"}

\* C9 as stated: construction succeeds; the key of a record is the string
\* path-if-given-else-name; the project stored for a record's key is the last
\* record with that key; as many projects are stored as there are distinct
\* keys; a lookup by a record's key finds a project.
C9_AsStated ==
  /\ op = "construct_from_schema" => result.ok
  /\ Constructed =>
       /\ \A i \in DOMAIN schema.project :
            LET s == PathOrName(schema.project[i])
            IN /\ PathBuf(s) \in DOMAIN manifest.projects
               /\ manifest.projects[PathBuf(s)] = ProjectFrom(schema.project[Max(RecordsKeyed(s))])
       /\ Cardinality(DOMAIN manifest.projects)
            = Cardinality({PathOrName(schema.project[i]) : i \in DOMAIN schema.project})
  /\ op = "get" => result.found # None

\* C9, amended: the same, with keys compared as paths (component by
\* component, so that "a" and "a/" are one key) instead of as strings.
C9_LastRecordWins ==
  /\ op = "construct_from_schema" => result.ok
  /\ Constructed =>
       /\ \A i \in DOMAIN schema.project :
            LET s == PathOrName(schema.project[i])
            IN /\ PathBuf(s) \in DOMAIN manifest.projects
               /\ manifest.projects[PathBuf(s)] = ProjectFrom(schema.project[Max(RecordsAt(s))])
       /\ Cardinality(DOMAIN manifest.projects)
            = Cardinality({PathBuf(PathOrName(schema.project[i])) : i \in DOMAIN schema.project})
  /\ op = "get" => result.found # None

\* A record keyed "a" by its name and a later one keyed "a/" by its path left
\* one project in the manifest, the later one; the lookup by "a" found it.
C9_Witness ==
  /\ op = "get"
  /\ Len(schema.project) = 2
  /\ schema.project[1].path = None /\ schema.project[1].name = <<"a">>
  /\ schema.project[2].path = Some(<<"a", "/">>) /\ schema.project[2].name = <<"b">>
  /\ Cardinality(DOMAIN manifest.projects) = 1
  /\ result.key = <<"a">>
  /\ result.found = Some(ProjectFrom(schema.project[2]))

====
